---- MODULE Spec2Model ----
(***************************************************************************)
(* Model of the typed event dispatcher of examples/game_event/main.cpp:    *)
(* the EventDispatcher class (a table from std::type_index to a vector of  *)
(* closures), the event class hierarchy, and the TypedEventListener<T>     *)
(* capabilities of the listener classes.                                   *)
(*                                                                         *)
(* dispatchEvent is modelled step by step (call and lookup, one closure    *)
(* call per loop iteration, return) on a single call stack: the handlers   *)
(* only print, so nothing re-enters the dispatcher while a call runs.      *)
(***************************************************************************)
EXTENDS Integers, Sequences, FiniteSets, TLC

\* Bounds of the exploration: calls to addEventListener and to dispatchEvent.
MaxRegs == 3
MaxPubs == 2

---------------------------------------------------------------------------
\* The event classes (GameEvent and the two classes deriving from it).
EventTypes == {"GameEvent", "PlayerMoveEvent", "EnemySpawnEvent"}

\* The direct base classes of an event class.
Bases(T) == IF T = "GameEvent" THEN {} ELSE {"GameEvent"}

\* D is B or derives from B.
IsSubtype(D, B) == D = B \/ B \in Bases(D)

\* Payloads of the published events (the uid main passes).
Uids == {10001}

\* The event objects a caller can pass to dispatchEvent: a runtime class
\* and a payload.
Events == [type : EventTypes, uid : Uids]

\* The listener objects.  The first three are the concrete classes of the
\* example; GameEventListener stands for an instantiation of the template
\* TypedEventListener<T> with T = GameEvent.
Listeners ==
    {"PlayerMovementListener", "EnemySpawnListener", "PlayerListener",
     "GameEventListener"}

\* The TypedEventListener<T> bases of a listener: the T for which a pointer
\* to it converts to TypedEventListener<T>*.
Implements(l) ==
    CASE l = "PlayerMovementListener" -> {"PlayerMoveEvent"}
      [] l = "EnemySpawnListener"     -> {"EnemySpawnEvent"}
      [] l = "PlayerListener"         -> {"PlayerMoveEvent", "EnemySpawnEvent"}
      [] l = "GameEventListener"      -> {"GameEvent"}

---------------------------------------------------------------------------
VARIABLES
    listeners,   \* EventDispatcher::listeners: key -> sequence of closures
    pc,          \* "idle", or "dispatching" inside dispatchEvent's loop
    cur,         \* the running dispatchEvent: its event, iterator and index
    trace,       \* the onEvent calls made so far, in order
    skipped,     \* closure calls whose dynamic_cast returned null
    registered,  \* history: the addEventListener calls, in order
    pubs,        \* history: the dispatchEvent calls, in order
    order,       \* main: the vector getMultibindings<EventListener>() returned
    mainpc       \* main: its position (none when main is not the caller)

vars == <<listeners, pc, cur, trace, skipped, registered, pubs, order, mainpc>>

\* The variables of main.
mainvars == <<order, mainpc>>

\* listeners.end()
End == "end"

NoCall == [event |-> [type |-> "GameEvent", uid |-> 10001], it |-> End, idx |-> 0]

---------------------------------------------------------------------------
\* std::type_index(typeid(T)) at registration.
KeyOf_Fixed(T) == "PlayerMoveEvent"
KeyOf_Base(T) == "GameEvent"
KeyOf(T) == T

\* std::type_index(typeid(event)): GameEvent is polymorphic, so this is the
\* runtime class of the object.
TypeId_Static(e) == "GameEvent"
TypeId(e) == e.type

\* dynamic_cast<const T*>(&e) is non-null.
DynamicCast_Inverted(T, e) == ~IsSubtype(e.type, T)
DynamicCast(T, e) == IsSubtype(e.type, T)

\* The closure addEventListener<T> builds: it captures the pointer and T.
MakeEntry(T, l) == [listener |-> l, T |-> T]

\* listeners[k]: the table after operator[], which inserts an empty vector
\* for a key that is absent.
Subscript_Fresh(m, k) == [x \in DOMAIN m \cup {k} |-> IF x = k THEN <<>> ELSE m[x]]
Subscript(m, k) == [x \in DOMAIN m \cup {k} |-> IF x \in DOMAIN m THEN m[x] ELSE <<>>]

\* vector::push_back
PushBack_Unique(s, x) == IF \E i \in 1..Len(s) : s[i] = x THEN s ELSE Append(s, x)
PushBack_Front(s, x) == <<x>> \o s
PushBack(s, x) == Append(s, x)

\* listeners.find(k): the key found, or end().
Find_Base(m, k) ==
    IF k \in DOMAIN m THEN k
    ELSE IF \E b \in Bases(k) : b \in DOMAIN m
         THEN CHOOSE b \in Bases(k) : b \in DOMAIN m
         ELSE End
Find(m, k) == IF k \in DOMAIN m THEN k ELSE End

\* The table after find: find inserts nothing.
TableAfterFind_Insert(m, k) == Subscript(m, k)
TableAfterFind(m, k) == m

\* *typedEvent: the result of the cast refers to the object published, seen
\* as a T; nothing is copied.
Narrow_Sliced(T, e) == [type |-> "GameEvent", uid |-> 0]
Narrow(T, e) == e

\* listener->onEvent(*typedEvent) through TypedEventListener<T>*: the
\* override for T runs, on the event passed.
OnEvent_FirstOverload(l, T, e, p) ==
    [pub |-> p, listener |-> l, ev |-> e,
     handler |-> IF "PlayerMoveEvent" \in Implements(l) THEN "PlayerMoveEvent" ELSE T]
OnEvent(l, T, e, p) == [pub |-> p, listener |-> l, handler |-> T, ev |-> e]

\* The range-for over it->second has run past the last closure.
LoopDone_AfterFirst(s, i) == i > 1
LoopDone(s, i) == i > Len(s)

---------------------------------------------------------------------------
\* A default-constructed EventDispatcher, nothing called yet.
InitDispatcher ==
    /\ listeners = [k \in {} |-> <<>>]
    /\ pc = "idle"
    /\ cur = NoCall
    /\ trace = <<>>
    /\ skipped = 0
    /\ registered = <<>>
    /\ pubs = <<>>

\* main is not running: any caller uses the dispatcher.
NotInMain == [at |-> "none", i |-> 0, branch |-> 0]

Init ==
    /\ InitDispatcher
    /\ order = <<>>
    /\ mainpc = NotInMain

\* addEventListener<T>(listener)
AddEventListener(T, l) ==
    /\ pc = "idle"
    /\ T \in Implements(l)
    /\ LET k == KeyOf(T)
           m == Subscript(listeners, k)
       IN  listeners' = [m EXCEPT ![k] = PushBack(m[k], MakeEntry(T, l))]
    /\ registered' = Append(registered, [T |-> T, listener |-> l])
    /\ UNCHANGED <<pc, cur, trace, skipped, pubs>>

\* dispatchEvent(event): the call, the lookup, and the return when the key
\* is absent.
DispatchEvent(e) ==
    /\ pc = "idle"
    /\ LET k  == TypeId(e)
           it == Find(listeners, k)
       IN  /\ listeners' = TableAfterFind(listeners, k)
           /\ IF it # End
              THEN /\ pc' = "dispatching"
                   /\ cur' = [event |-> e, it |-> it, idx |-> 1]
              ELSE /\ pc' = "idle"
                   /\ cur' = NoCall
    /\ pubs' = Append(pubs, [ev |-> e, nreg |-> Len(registered)])
    /\ UNCHANGED <<trace, skipped, registered>>

\* One iteration of the loop: listener(event).
InvokeNext ==
    /\ pc = "dispatching"
    /\ ~LoopDone(listeners[cur.it], cur.idx)
    /\ LET entry == listeners[cur.it][cur.idx]
       IN  IF DynamicCast(entry.T, cur.event)
           THEN /\ trace' = Append(trace,
                        OnEvent(entry.listener, entry.T,
                                Narrow(entry.T, cur.event), Len(pubs)))
                /\ skipped' = skipped
           ELSE /\ trace' = trace
                /\ skipped' = skipped + 1
    /\ cur' = [cur EXCEPT !.idx = @ + 1]
    /\ UNCHANGED <<listeners, pc, registered, pubs, mainvars>>

\* The loop ends and dispatchEvent returns.
DispatchReturn ==
    /\ pc = "dispatching"
    /\ LoopDone(listeners[cur.it], cur.idx)
    /\ pc' = "idle"
    /\ cur' = NoCall
    /\ UNCHANGED <<listeners, trace, skipped, registered, pubs, mainvars>>

\* A caller other than main registers a listener, up to the bound.
CallAddEventListener(T, l) ==
    /\ Len(registered) < MaxRegs
    /\ AddEventListener(T, l)
    /\ UNCHANGED mainvars

\* A caller other than main publishes an event, up to the bound.
CallDispatchEvent(e) ==
    /\ Len(pubs) < MaxPubs
    /\ DispatchEvent(e)
    /\ UNCHANGED mainvars

\* Any caller: the two operations in any order.
Next ==
    \/ \E T \in EventTypes, l \in Listeners : CallAddEventListener(T, l)
    \/ \E e \in Events : CallDispatchEvent(e)
    \/ InvokeNext
    \/ DispatchReturn

Spec == Init /\ [][Next]_vars

---------------------------------------------------------------------------
\* main: the injector's three multibindings, the registration loop and the
\* two publishes.

\* The listeners getEventSystemComponent binds to EventListener.
Multibindings == {"PlayerMovementListener", "EnemySpawnListener", "PlayerListener"}

\* The orders in which getMultibindings<EventListener>() can list them.
Enumerations ==
    {o \in [1..3 -> Multibindings] : \A i, j \in 1..3 : o[i] = o[j] => i = j}

\* dynamic_cast<C*>(listener) is non-null: the object's class is C or derives
\* from it.  None of the three listener classes derives from another.
IsInstanceOf_ByCapability(l, C) == Implements(C) \subseteq Implements(l)
IsInstanceOf(l, C) == l = C

\* The class the loop's if number b casts to.
BranchClass(b) ==
    CASE b = 1 -> "PlayerMovementListener"
      [] b = 2 -> "EnemySpawnListener"
      [] b = 3 -> "PlayerListener"

\* The T deduced for addEventListener(p) when p points to a class with one
\* TypedEventListener<T> base.
DeducedT(C) == CHOOSE T \in Implements(C) : TRUE

\* The position after the if number b of iteration i.
AfterBranch(i, b) ==
    IF b < 3 THEN [at |-> "loop", i |-> i, branch |-> b + 1]
    ELSE IF i < Len(order) THEN [at |-> "loop", i |-> i + 1, branch |-> 1]
    ELSE [at |-> "publishMove", i |-> 0, branch |-> 0]

\* The events main publishes.
MoveEvent == [type |-> "PlayerMoveEvent", uid |-> 10001]
SpawnEvent == [type |-> "EnemySpawnEvent", uid |-> 10001]

InitMain ==
    /\ InitDispatcher
    /\ order \in Enumerations
    /\ mainpc = [at |-> "loop", i |-> 1, branch |-> 1]

\* One of the first two ifs of the loop body: the cast, and the registration
\* when it succeeds.
MainSingleBranch ==
    /\ mainpc.at = "loop"
    /\ mainpc.branch \in {1, 2}
    /\ IF IsInstanceOf(order[mainpc.i], BranchClass(mainpc.branch))
       THEN AddEventListener(DeducedT(BranchClass(mainpc.branch)), order[mainpc.i])
       ELSE UNCHANGED <<listeners, pc, cur, trace, skipped, registered, pubs>>
    /\ mainpc' = AfterBranch(mainpc.i, mainpc.branch)
    /\ UNCHANGED order

\* The third if: the cast to PlayerListener and, when it succeeds, the
\* registration as TypedEventListener<PlayerMoveEvent>.
MainPlayerBranch ==
    /\ mainpc.at = "loop"
    /\ mainpc.branch = 3
    /\ IF IsInstanceOf(order[mainpc.i], BranchClass(3))
       THEN /\ AddEventListener("PlayerMoveEvent", order[mainpc.i])
            /\ mainpc' = [at |-> "second", i |-> mainpc.i, branch |-> 3]
       ELSE /\ UNCHANGED <<listeners, pc, cur, trace, skipped, registered, pubs>>
            /\ mainpc' = AfterBranch(mainpc.i, 3)
    /\ UNCHANGED order

\* The second registration of the third if, as
\* TypedEventListener<EnemySpawnEvent>.
MainPlayerSecond ==
    /\ mainpc.at = "second"
    /\ AddEventListener("EnemySpawnEvent", order[mainpc.i])
    /\ mainpc' = AfterBranch(mainpc.i, 3)
    /\ UNCHANGED order

\* dispatcher->dispatchEvent(PlayerMoveEvent(10001, ...))
MainPublishMove ==
    /\ mainpc.at = "publishMove"
    /\ DispatchEvent(MoveEvent)
    /\ mainpc' = [at |-> "publishSpawn", i |-> 0, branch |-> 0]
    /\ UNCHANGED order

\* dispatcher->dispatchEvent(EnemySpawnEvent("Goblin", 10001, ...)), after
\* the first publish has returned.
MainPublishSpawn ==
    /\ mainpc.at = "publishSpawn"
    /\ DispatchEvent(SpawnEvent)
    /\ mainpc' = [at |-> "return", i |-> 0, branch |-> 0]
    /\ UNCHANGED order

\* return 0, after the second publish has returned.
MainReturn ==
    /\ mainpc.at = "return"
    /\ pc = "idle"
    /\ mainpc' = [at |-> "done", i |-> 0, branch |-> 0]
    /\ UNCHANGED <<listeners, pc, cur, trace, skipped, registered, pubs, order>>

NextMain ==
    \/ MainSingleBranch
    \/ MainPlayerBranch
    \/ MainPlayerSecond
    \/ MainPublishMove
    \/ MainPublishSpawn
    \/ InvokeNext
    \/ DispatchReturn
    \/ MainReturn

SpecMain == InitMain /\ [][NextMain]_vars

---------------------------------------------------------------------------
\* Helpers of the properties.

\* dispatchEvent call number p has returned.
Returned(p) == p \in 1..Len(pubs) /\ (pc = "idle" \/ p < Len(pubs))

\* The runtime class of the event of call p.
PubType(p) == pubs[p].ev.type

\* The onEvent calls made by dispatchEvent call p, in order.
InvocationsOf(p) == SelectSeq(trace, LAMBDA r : r.pub = p)

\* The addEventListener calls made before dispatchEvent call p.
RegsBefore(p) == SubSeq(registered, 1, pubs[p].nreg)

\* Those of them made for variant V.
RegsFor(p, V) == SelectSeq(RegsBefore(p), LAMBDA g : g.T = V)

\* Number of elements of s that satisfy Test.
Count(s, Test(_)) == Len(SelectSeq(s, Test))

IsPrefix(s, t) == Len(s) <= Len(t) /\ SubSeq(t, 1, Len(s)) = s

\* The sequence a key holds in table m, empty when the key is absent.
SeqAt(m, k) == IF k \in DOMAIN m THEN m[k] ELSE <<>>

---------------------------------------------------------------------------
\* C1: once a dispatchEvent of an event of runtime variant V has returned, it
\* has invoked subscriber S's handler for V exactly as many times as S was
\* registered against V before the call; duplicates are not collapsed.
C1_InvokedOncePerRegistration ==
    \A p \in 1..Len(pubs) : Returned(p) =>
        \A S \in Listeners :
            Count(InvocationsOf(p),
                  LAMBDA r : r.listener = S /\ r.handler = PubType(p))
            = Count(RegsBefore(p),
                    LAMBDA g : g.listener = S /\ g.T = PubType(p))

\* A returned publish whose variant one subscriber was registered for twice,
\* and which invoked that subscriber twice.
C1_Witness ==
    \E p \in 1..Len(pubs), S \in Listeners :
        /\ Returned(p)
        /\ Count(RegsBefore(p), LAMBDA g : g.listener = S /\ g.T = PubType(p)) = 2
        /\ Count(InvocationsOf(p), LAMBDA r : r.listener = S) = 2

\* C2: the subscribers invoked by one returned dispatchEvent of a V-event
\* are, in order, the subscribers of the registrations made for V, whatever
\* registrations for other variants were made in between.
C2_InvocationOrderIsRegistrationOrder ==
    \A p \in 1..Len(pubs) : Returned(p) =>
        LET inv  == InvocationsOf(p)
            regs == RegsFor(p, PubType(p))
        IN  /\ Len(inv) = Len(regs)
            /\ \A i \in 1..Len(inv) : inv[i].listener = regs[i].listener

\* Two different subscribers registered for V with a registration for
\* another variant between them, and a returned publish of V.
C2_Witness ==
    \E p \in 1..Len(pubs) :
        /\ Returned(p)
        /\ pubs[p].nreg = 3
        /\ registered[1].T = PubType(p)
        /\ registered[2].T # PubType(p)
        /\ registered[3].T = PubType(p)
        /\ registered[1].listener # registered[3].listener
        /\ Len(InvocationsOf(p)) = 2

\* S was registered before call p, and only ever for variant A.
RegisteredOnlyFor(S, A, p) ==
    /\ \E i \in 1..Len(RegsBefore(p)) : RegsBefore(p)[i].listener = S
    /\ \A i \in 1..Len(RegsBefore(p)) :
           RegsBefore(p)[i].listener = S => RegsBefore(p)[i].T = A

\* C3: a subscriber registered only for variant A is not invoked by a
\* dispatchEvent of an event whose runtime variant is B # A.
C3_NoCrossVariantInvocation ==
    \A i \in 1..Len(trace) :
        \A A \in EventTypes :
            PubType(trace[i].pub) # A
                => ~RegisteredOnlyFor(trace[i].listener, A, trace[i].pub)

\* A returned publish of B that invoked a handler while a subscriber
\* registered only for a sibling class A (same base GameEvent) and one
\* registered only for the base class were in the table.
C3_Witness ==
    \E p \in 1..Len(pubs), S1, S2 \in Listeners :
        /\ Returned(p)
        /\ PubType(p) = "EnemySpawnEvent"
        /\ RegisteredOnlyFor(S1, "PlayerMoveEvent", p)
        /\ RegisteredOnlyFor(S2, "GameEvent", p)
        /\ Len(InvocationsOf(p)) = 1

\* The step is a call of dispatchEvent for a variant nothing was registered
\* for.
PublishOfUnregistered ==
    /\ Len(pubs') = Len(pubs) + 1
    /\ \A i \in 1..Len(registered) : registered[i].T # pubs'[Len(pubs')].ev.type

\* C4: dispatchEvent of an event whose variant has no registered entry
\* returns at once, invokes nothing and leaves the table as it was.
C4_UnregisteredPublishIsNoOp ==
    [][PublishOfUnregistered =>
          /\ pc' = "idle"
          /\ trace' = trace
          /\ skipped' = skipped
          /\ listeners' = listeners]_vars

\* A publish of a variant without entries has returned while the table held
\* entries for other variants, a base class among them, and no key was made.
C4_Witness ==
    \E p \in 1..Len(pubs) :
        /\ Returned(p)
        /\ pubs[p].nreg = Len(registered)
        /\ RegsFor(p, PubType(p)) = <<>>
        /\ PubType(p) \notin DOMAIN listeners
        /\ "GameEvent" \in DOMAIN listeners
        /\ PubType(p) # "GameEvent"
        /\ InvocationsOf(p) = <<>>

\* S was registered for both A and B before call p.
RegisteredForBoth(S, A, B, p) ==
    /\ A # B
    /\ \E i \in 1..Len(RegsBefore(p)) :
           RegsBefore(p)[i] = [T |-> A, listener |-> S]
    /\ \E i \in 1..Len(RegsBefore(p)) :
           RegsBefore(p)[i] = [T |-> B, listener |-> S]

\* The handlers (subscriber, variant) a call invoked, in order.
Handlers(p) ==
    [i \in 1..Len(InvocationsOf(p)) |->
        <<InvocationsOf(p)[i].listener, InvocationsOf(p)[i].handler>>]

\* X registered for Move, then Y for Move and Spawn.
MoveSpawnExample ==
    << [T |-> "PlayerMoveEvent", listener |-> "PlayerMovementListener"],
       [T |-> "PlayerMoveEvent", listener |-> "PlayerListener"],
       [T |-> "EnemySpawnEvent", listener |-> "PlayerListener"] >>

\* C5: a subscriber registered for both A and B gets only its A-handler
\* invoked by a publish of A (and only its B-handler by a publish of B); with
\* X registered for Move and Y for Move and Spawn, a Move publish invokes
\* [X.Move, Y.Move] and a Spawn publish invokes [Y.Spawn].
C5_OnlyMatchingHandler ==
    /\ \A i \in 1..Len(trace) :
           \A A, B \in EventTypes :
               (PubType(trace[i].pub) = A /\ trace[i].handler # A)
                   => ~RegisteredForBoth(trace[i].listener, A, B, trace[i].pub)
    /\ \A p \in 1..Len(pubs) :
           (Returned(p) /\ RegsBefore(p) = MoveSpawnExample) =>
               /\ PubType(p) = "PlayerMoveEvent" =>
                      Handlers(p) = << <<"PlayerMovementListener", "PlayerMoveEvent">>,
                                       <<"PlayerListener", "PlayerMoveEvent">> >>
               /\ PubType(p) = "EnemySpawnEvent" =>
                      Handlers(p) = << <<"PlayerListener", "EnemySpawnEvent">> >>

\* The example itself: Move then Spawn published after the three
\* registrations.
C5_Witness ==
    /\ pc = "idle"
    /\ registered = MoveSpawnExample
    /\ Len(pubs) = 2
    /\ pubs[1].nreg = 3
    /\ PubType(1) = "PlayerMoveEvent"
    /\ PubType(2) = "EnemySpawnEvent"
    /\ Len(trace) = 3
    /\ trace[3].listener = "PlayerListener"
    /\ trace[3].handler = "EnemySpawnEvent"

\* The step belongs to a dispatchEvent call: its call, one of its loop
\* iterations, or its return.
DispatchStep == pc # "idle" \/ pc' # "idle" \/ pubs' # pubs

\* C6: no step of dispatchEvent changes the table, whether or not the event
\* has entries; the table changes only in a step that is an addEventListener
\* call.
C6_DispatchLeavesTableUnchanged ==
    [][/\ DispatchStep => listeners' = listeners
       /\ listeners' # listeners => Len(registered') = Len(registered) + 1]_vars

\* Two publishes have returned, one of a variant with entries and one of a
\* variant without, and the table still holds exactly what was registered
\* before them.
C6_Witness ==
    /\ pc = "idle"
    /\ Len(pubs) = 2
    /\ pubs[1].nreg = Len(registered)
    /\ Len(registered) = 2
    /\ InvocationsOf(1) # <<>>
    /\ RegsFor(2, PubType(2)) = <<>>
    /\ PubType(2) \notin DOMAIN listeners

\* The step is a call addEventListener<V>(l).
Registration(V, l) ==
    registered' = Append(registered, [T |-> V, listener |-> l])

\* C7: addEventListener for V appends exactly one entry at the end of V's
\* sequence and leaves the sequences of the other variants alone; no step of
\* any operation removes or reorders an entry.
C7_RegistrationAppendsOneEntry ==
    [][/\ \A V \in EventTypes, l \in Listeners :
              Registration(V, l) =>
                  /\ V \in DOMAIN listeners'
                  /\ listeners'[V] = Append(SeqAt(listeners, V), MakeEntry(V, l))
                  /\ DOMAIN listeners' = DOMAIN listeners \cup {V}
                  /\ \A k \in DOMAIN listeners \ {V} : listeners'[k] = listeners[k]
       /\ \A k \in DOMAIN listeners :
              /\ k \in DOMAIN listeners'
              /\ IsPrefix(listeners[k], listeners'[k])]_vars

\* A variant holds two entries of different subscribers while another
\* variant holds one: the second registration for the variant extended a
\* sequence that was there.
C7_Witness ==
    \E V, W \in DOMAIN listeners :
        /\ V # W
        /\ Len(listeners[V]) = 2
        /\ listeners[V][1].listener # listeners[V][2].listener
        /\ registered[Len(registered)].T = V
        /\ Len(listeners[W]) = 1

\* The onEvent calls dispatchEvent call p makes when it runs to its end: one
\* per registration made for the variant of its event before the call.
OwnSequence(p) ==
    [i \in 1..Len(RegsFor(p, PubType(p))) |->
        [pub |-> p, listener |-> RegsFor(p, PubType(p))[i].listener,
         handler |-> PubType(p), ev |-> pubs[p].ev]]

RECURSIVE ConcatOwn(_)
\* The sequences of calls 1..n, one after the other.
ConcatOwn(n) == IF n = 0 THEN <<>> ELSE ConcatOwn(n - 1) \o OwnSequence(n)

\* C8: dispatch is synchronous.  When no call is running, the global trace
\* is the concatenation, in publish order, of the complete sequences of the
\* calls made; while a call runs, it is that of the earlier calls followed
\* by the part of the running call's sequence done so far.
C8_Synchronous ==
    IF pc = "idle"
    THEN trace = ConcatOwn(Len(pubs))
    ELSE /\ Len(pubs) > 0
         /\ cur.idx - 1 <= Len(OwnSequence(Len(pubs)))
         /\ trace = ConcatOwn(Len(pubs) - 1)
                        \o SubSeq(OwnSequence(Len(pubs)), 1, cur.idx - 1)

\* Two publishes with two invocations each have returned, a registration
\* made between them.
C8_Witness ==
    /\ pc = "idle"
    /\ Len(pubs) = 2
    /\ pubs[1].nreg < pubs[2].nreg
    /\ Len(InvocationsOf(1)) = 2
    /\ Len(InvocationsOf(2)) = 2
    /\ Len(trace) = 4

\* C9: every entry stored under key K expects variant K, and no closure that
\* dispatchEvent called found its narrowing check failing.
C9_EntriesMatchTheirKey ==
    /\ \A k \in DOMAIN listeners :
           \A i \in 1..Len(listeners[k]) : listeners[k][i].T = k
    /\ skipped = 0

\* Entries under three keys, and two publishes that called closures.
C9_Witness ==
    /\ pc = "idle"
    /\ Cardinality(DOMAIN listeners) = 3
    /\ Len(pubs) = 2
    /\ InvocationsOf(1) # <<>>
    /\ InvocationsOf(2) # <<>>
    /\ skipped = 0

\* C10: a publish of an event whose runtime class D derives from B invokes
\* no entry registered for B: every entry it invokes was registered for
\* exactly D.
C10_NoHierarchyDelivery ==
    \A i \in 1..Len(trace) :
        LET D == PubType(trace[i].pub)
            B == trace[i].handler
        IN  ~(D # B /\ IsSubtype(D, B))

\* A publish of a derived class has returned and invoked its own entry,
\* while an entry for the base class GameEvent, whose narrowing check
\* accepts the event, was in the table.
C10_Witness ==
    \E p \in 1..Len(pubs) :
        /\ Returned(p)
        /\ PubType(p) = "PlayerMoveEvent"
        /\ RegsFor(p, "GameEvent") # <<>>
        /\ DynamicCast("GameEvent", pubs[p].ev)
        /\ Len(InvocationsOf(p)) = 1
        /\ \A i \in 1..Len(trace) : trace[i].handler # "GameEvent"

\* No event is kept for later: an onEvent call is made only by the running
\* dispatchEvent, with that call's event, and while the registrations are
\* the ones made before the call; a registration makes no onEvent call.
DeliveredOnlyDuringItsCall ==
    /\ trace' # trace =>
           /\ pc = "dispatching"
           /\ registered' = registered
           /\ pubs' = pubs
           /\ pubs[Len(pubs)].nreg = Len(registered)
           /\ trace' = Append(trace, trace'[Len(trace')])
           /\ trace'[Len(trace')].pub = Len(pubs)
           /\ trace'[Len(trace')].ev = pubs[Len(pubs)].ev
    /\ registered' # registered => trace' = trace

\* For a returned call p and a registration j for the variant of its event:
\* made before p, its subscriber was invoked by p; made after p, it added
\* nothing to what p delivered.
DeliveredToEarlierEntriesOnly ==
    \A p \in 1..Len(pubs) : Returned(p) =>
        /\ Len(InvocationsOf(p)) = Len(RegsFor(p, PubType(p)))
        /\ \A j \in 1..Len(registered) :
               registered[j].T = PubType(p) =>
                   IF j <= pubs[p].nreg
                   THEN \E i \in 1..Len(trace) :
                            /\ trace[i].pub = p
                            /\ trace[i].listener = registered[j].listener
                            /\ trace[i].ev = pubs[p].ev
                   ELSE Count(InvocationsOf(p),
                              LAMBDA r : r.listener = registered[j].listener)
                        = Count(RegsFor(p, PubType(p)),
                                LAMBDA g : g.listener = registered[j].listener)

\* C11: the registry retains no event.  A dispatchEvent delivers only to the
\* entries registered before it, an entry registered after a publish never
\* receives that earlier event, and an entry receives every publish of its
\* variant made after its registration.
C11_NoReplay ==
    []DeliveredToEarlierEntriesOnly /\ [][DeliveredOnlyDuringItsCall]_vars

\* A publish of V returned with nothing registered for V, a subscriber was
\* registered for V afterwards, and a second publish of V returned: the
\* subscriber got the second event and never the first.
C11_Witness ==
    /\ pc = "idle"
    /\ Len(pubs) = 2
    /\ PubType(1) = PubType(2)
    /\ pubs[1].nreg = 1
    /\ Len(registered) = 2
    /\ pubs[2].nreg = 2
    /\ registered[1].T = PubType(1)
    /\ registered[2].T = PubType(1)
    /\ registered[2].listener # registered[1].listener
    /\ Len(InvocationsOf(1)) = 1
    /\ InvocationsOf(1)[1].listener = registered[1].listener
    /\ Len(InvocationsOf(2)) = 2
    /\ InvocationsOf(2)[2].listener = registered[2].listener

\* C12: every handler a dispatchEvent call invokes receives the event that
\* was published, payload included: the running call holds that event from
\* its first entry to its last, and each onEvent call of call p, the first
\* and the last among them, saw the contents of p's event.
C12_SameEventToEveryHandler ==
    /\ pc = "dispatching" => cur.event = pubs[Len(pubs)].ev
    /\ \A i \in 1..Len(trace) : trace[i].ev = pubs[trace[i].pub].ev
    /\ \A p \in 1..Len(pubs) :
           LET inv == InvocationsOf(p)
           IN  inv # <<>> => inv[1].ev = inv[Len(inv)].ev

\* A returned publish that invoked the handlers of two different
\* subscribers, both with the uid published.
C12_Witness ==
    \E p \in 1..Len(pubs) :
        /\ Returned(p)
        /\ Len(InvocationsOf(p)) >= 2
        /\ InvocationsOf(p)[1].listener # InvocationsOf(p)[Len(InvocationsOf(p))].listener
        /\ InvocationsOf(p)[1].ev.uid = 10001
        /\ InvocationsOf(p)[Len(InvocationsOf(p))].ev = pubs[p].ev

\* main has left the registration loop.
LoopOver == mainpc.at \in {"publishMove", "publishSpawn", "return", "done"}

\* Both publishes of main have returned.
PublishesOver == mainpc.at = "done" \/ (mainpc.at = "return" /\ pc = "idle")

\* Number of addEventListener<T>(l) calls made.
TimesRegistered(l, T) ==
    Count(registered, LAMBDA g : g.listener = l /\ g.T = T)

\* C13: whatever the order in which the container lists the three
\* listeners, main's loop registers one entry per (subscriber, capability)
\* pair and none twice: four entries, two under PlayerMoveEvent and two under
\* EnemySpawnEvent; the move publish then invokes exactly two handlers and
\* the spawn publish exactly two.
C13_MainRegistersOnePerCapability ==
    /\ \A l \in Multibindings, T \in EventTypes : TimesRegistered(l, T) <= 1
    /\ LoopOver =>
           /\ Len(registered) = 4
           /\ \A l \in Multibindings, T \in EventTypes :
                  TimesRegistered(l, T) = IF T \in Implements(l) THEN 1 ELSE 0
           /\ DOMAIN listeners = {"PlayerMoveEvent", "EnemySpawnEvent"}
           /\ \A k \in DOMAIN listeners :
                  /\ Len(listeners[k]) = 2
                  /\ listeners[k][1].listener # listeners[k][2].listener
    /\ PublishesOver =>
           /\ Len(pubs) = 2
           /\ Len(InvocationsOf(1)) = 2
           /\ Len(InvocationsOf(2)) = 2
           /\ \A i \in 1..Len(trace) :
                  trace[i].handler = PubType(trace[i].pub)
           /\ Len(trace) = 4
           /\ skipped = 0

\* main has finished under an order other than the one the bindings are
\* declared in: PlayerListener was listed first and is the first handler
\* invoked for both events.
C13_Witness ==
    /\ mainpc.at = "done"
    /\ order = <<"PlayerListener", "EnemySpawnListener", "PlayerMovementListener">>
    /\ Len(registered) = 4
    /\ Len(trace) = 4
    /\ trace[1].listener = "PlayerListener"
    /\ trace[2].listener = "PlayerMovementListener"
    /\ trace[3].listener = "PlayerListener"
    /\ trace[4].listener = "EnemySpawnListener"

====
